---- MODULE Spec2Model ----
(***************************************************************************)
(* A model of the ISS tracker service (iss_tracker.py): the process-wide   *)
(* dataset, the feed parser, the unit converter, the nearest-epoch binary  *)
(* search and the epoch-based queries built on it.                         *)
(*                                                                         *)
(* Values.  A Python value stored in a record or read from the feed is a   *)
(* record [k, m, e]:                                                       *)
(*   k = "float" : the float  m * KM_TO_M^e  (exact arithmetic; the       *)
(*                 factor KM_TO_M is kept symbolic, its power is e)        *)
(*   k = "str"   : a string that float() parses to the number m            *)
(*   k = "text"  : a string that float() and strptime() both reject        *)
(*   k = "epoch" : a string "YYYY-MM-DDTHH:MM:SS.fff" whose first 19       *)
(*                 characters strptime()/mktime() turn into the instant m  *)
(*                 (seconds since 1970)                                    *)
(* Return values of the handlers carry a tag `kind`: "list", "tuple" (a    *)
(* (payload, status) pair), "dict", "str", "pair", or "raise" for an       *)
(* exception that leaves the handler.                                      *)
(***************************************************************************)
EXTENDS Integers, Sequences, FiniteSets, TLC

VARIABLES data, resp, cd, run

vars == <<data, resp, cd, run>>

\* ------------------------------------------------------------------ bounds

\* Most rows a feed of the model holds.
MaxRecords == 3

\* Most records of a collection handed to convert_data directly.
MaxItems == 2

\* The instant of the epoch "2023-03-04T08:31:00" (the epoch the tests query).
T0 == 1677918660

\* Offsets (seconds) from T0 of the epochs the feeds of the model carry:
\* neighbours one second apart, and neighbours further apart.
EpochOffsets == {0, 1, 4}

\* Offsets (seconds) from T0 of the instants a caller asks about.
TargetOffsets == -2 .. 6

\* ------------------------------------------------------------------ values

Float(m, e) == [k |-> "float", m |-> m, e |-> e]

Str(m) == [k |-> "str", m |-> m, e |-> 0]

Text(m) == [k |-> "text", m |-> m, e |-> 0]

Epoch(t) == [k |-> "epoch", m |-> t, e |-> 0]

\* 1 km = KM_TO_M miles: the symbolic factor, to the power one.
KM_TO_M == Float(1, 1)

\* A converter that takes the factor itself for its reciprocal.
Reciprocal_Same(f) == f

\* 1 / KM_TO_M
Reciprocal(f) == Float(f.m, 0 - f.e)

\* float(v) succeeds on floats and numeric strings only.
CanFloat(v) == v.k \in {"float", "str"}

ToFloat(v) == Float(v.m, v.e)

\* a * b on floats
Mul(a, b) == Float(a.m * b.m, a.e + b.e)

\* time.strptime(epoch[:-4], '%Y-%m-%dT%H:%M:%S') succeeds on epoch strings only.
CanParseEpoch(v) == v.k = "epoch"

\* time.mktime(time.strptime(epoch[:-4], ...)): the fraction is cut off.
EpochSeconds(v) == v.m

Abs(x) == IF x < 0 THEN 0 - x ELSE x

Max(a, b) == IF a < b THEN b ELSE a

\* math.isclose's default rel_tol is 1e-09 (abs_tol 0).
InvRelTol == 1000000000

\* math.isclose(a, b): |a - b| <= rel_tol * max(|a|, |b|), on whole seconds.
IsClose(a, b) == Abs(a - b) <= Max(Abs(a), Abs(b)) \div InvRelTol

\* ------------------------------------------------------------------ payloads

get_error_payload(msg, err_code) == [ERROR |-> err_code, message |-> msg]

get_success_payload(msg) == [success |-> TRUE, message |-> msg]

RetTuple(payload, code) == [kind |-> "tuple", payload |-> payload, code |-> code]

RetDict(body) == [kind |-> "dict", body |-> body]

RetList(items) == [kind |-> "list", items |-> items]

RetRaise(exc) == [kind |-> "raise", exc |-> exc]

\* len() of a returned list or tuple
PyLen(v) == IF v.kind = "list" THEN Len(v.items) ELSE 2

\* v[0] of a returned list or tuple
PyFirst(v) == IF v.kind = "list" THEN v.items[1] ELSE v.payload

\* ------------------------------------------------------------------ feed parser

Keys == <<"epoch", "X", "Y", "Z", "X_Dot", "Y_Dot", "Z_Dot">>

MotionKeys == <<"X", "Y", "Z", "X_Dot", "Y_Dot", "Z_Dot">>

\* A line of the feed: a header or comment line, the start marker
\* "COMMENT End sequence of events", an empty line, or a row of values.
Line(kind, vals) == [kind |-> kind, vals |-> vals]

MarkerLine == Line("marker", <<Text(0)>>)

BlankLine == Line("blank", <<>>)

HeaderLine == Line("header", <<Text(1), Text(2), Text(3)>>)

\* {keys[i]: values[i] for i in range(len(keys))}; IndexError when values is shorter.
ZipRow(keys, values) ==
    [key \in {keys[i] : i \in 1 .. Len(keys)} |->
        values[CHOOSE i \in 1 .. Len(keys) : keys[i] = key]]

RECURSIVE TxtLoop(_, _, _, _, _)
TxtLoop(lines, keys, i, parse, acc) ==
    IF i > Len(lines) THEN [ok |-> TRUE, data |-> acc, exc |-> "none"]
    ELSE LET line == lines[i]
             take == parse /\ line.kind # "blank"
             nowParse == parse \/ line.kind = "marker"
         IN  IF take /\ Len(line.vals) < Len(keys)
             THEN [ok |-> FALSE, data |-> <<>>, exc |-> "IndexError"]
             ELSE TxtLoop(lines, keys, i + 1, nowParse,
                          IF take THEN Append(acc, ZipRow(keys, line.vals)) ELSE acc)

\* txt_to_dict(txt, keys, "\r\n", " ", start) with a start marker given.
txt_to_dict(lines, keys) == TxtLoop(lines, keys, 1, FALSE, <<>>)

\* item[key] = float(item[key]) for every key but "epoch"
FloatItem(item) ==
    [key \in DOMAIN item |-> IF key = "epoch" THEN item[key] ELSE ToFloat(item[key])]

ItemFloats(item) == \A key \in DOMAIN item : key = "epoch" \/ CanFloat(item[key])

\* load_data(): fetch, parse, convert the six motion fields to float.
load_data(fetched) ==
    IF fetched.kind = "error" THEN [ok |-> FALSE, data |-> <<>>, exc |-> "ConnectionError"]
    ELSE LET parsed == txt_to_dict(fetched.lines, Keys)
         IN  IF ~parsed.ok THEN parsed
             ELSE IF \E i \in 1 .. Len(parsed.data) : ~ItemFloats(parsed.data[i])
                  THEN [ok |-> FALSE, data |-> <<>>, exc |-> "ValueError"]
                  ELSE [ok |-> TRUE,
                        data |-> [i \in 1 .. Len(parsed.data) |-> FloatItem(parsed.data[i])],
                        exc |-> "none"]

\* ------------------------------------------------------------------ unit converter

\* A converter that leaves the loop over the fields after the first field.
ConvertKeys_FirstOnly(item, factor, object_keys, n) ==
    IF n > Len(object_keys) THEN [ok |-> TRUE, item |-> item, exc |-> "none"]
    ELSE LET object_key == object_keys[n]
         IN  IF object_key \notin DOMAIN item
             THEN [ok |-> FALSE, item |-> item, exc |-> "KeyError"]
             ELSE IF ~CanFloat(item[object_key]) \/ ~CanFloat(factor)
             THEN [ok |-> FALSE, item |-> item, exc |-> "ValueError"]
             ELSE [ok |-> TRUE,
                   item |-> [item EXCEPT ![object_key] =
                                Mul(ToFloat(item[object_key]), ToFloat(factor))],
                   exc |-> "none"]

\* for object_key in object_keys: item[object_key] = float(item[object_key]) * float(factor)
RECURSIVE ConvertKeys(_, _, _, _)
ConvertKeys(item, factor, object_keys, n) ==
    IF n > Len(object_keys) THEN [ok |-> TRUE, item |-> item, exc |-> "none"]
    ELSE LET object_key == object_keys[n]
         IN  IF object_key \notin DOMAIN item
             THEN [ok |-> FALSE, item |-> item, exc |-> "KeyError"]
             ELSE IF ~CanFloat(item[object_key]) \/ ~CanFloat(factor)
             THEN [ok |-> FALSE, item |-> item, exc |-> "ValueError"]
             ELSE ConvertKeys(
                      [item EXCEPT ![object_key] = Mul(ToFloat(item[object_key]), ToFloat(factor))],
                      factor, object_keys, n + 1)

\* for conversion_factor, object_keys in convert_map.items(): ...
RECURSIVE ConvertItem(_, _, _)
ConvertItem(item, convert_map, j) ==
    IF j > Len(convert_map) THEN [ok |-> TRUE, item |-> item, exc |-> "none"]
    ELSE LET r == ConvertKeys(item, convert_map[j].factor, convert_map[j].keys, 1)
         IN  IF ~r.ok THEN r ELSE ConvertItem(r.item, convert_map, j + 1)

\* for item in data_to_convert: ...  The items are rewritten in place, so the
\* collection an exception leaves behind is the one converted so far.
RECURSIVE ConvertLoop(_, _, _)
ConvertLoop(items, convert_map, i) ==
    IF i > Len(items) THEN [ok |-> TRUE, data |-> items, exc |-> "none"]
    ELSE LET r == ConvertItem(items[i], convert_map, 1)
             written == [items EXCEPT ![i] = r.item]
         IN  IF ~r.ok THEN [ok |-> FALSE, data |-> written, exc |-> r.exc]
             ELSE ConvertLoop(written, convert_map, i + 1)

convert_data(data_to_convert, convert_map) == ConvertLoop(data_to_convert, convert_map, 1)

\* {factor: [the six motion fields]}
MotionMap(factor) == <<[factor |-> factor, keys |-> MotionKeys]>>

\* ------------------------------------------------------------------ epoch index

\* iss_data[mid], with Python's indexing: a negative index counts from the end.
PyIndex(iss_data, mid) == IF mid < 0 THEN iss_data[Len(iss_data) + mid + 1] ELSE iss_data[mid + 1]

\* The while loop of get_closest_epoch; left, right and mid are 0-based.
RECURSIVE SearchLoop(_, _, _, _, _)
SearchLoop(iss_data, current_time, left, right, mid) ==
    LET epoch == PyIndex(iss_data, mid)["epoch"]
    IN  IF ~CanParseEpoch(epoch) THEN RetRaise("ValueError")
        ELSE LET epoch_seconds == EpochSeconds(epoch)
                 found == [kind |-> "pair", ISS |-> PyIndex(iss_data, mid),
                           delay |-> epoch_seconds - current_time]
             IN  IF IsClose(epoch_seconds, current_time) THEN found
                 ELSE IF ~(left < right) THEN found
                 ELSE IF epoch_seconds < current_time
                      THEN SearchLoop(iss_data, current_time, mid + 1, right,
                                      (mid + 1 + right) \div 2)
                      ELSE SearchLoop(iss_data, current_time, left, mid - 1,
                                      (left + mid - 1) \div 2)

\* get_closest_epoch(current_time) at wall-clock time `clock`.
get_closest_epoch(iss_data, current_time, clock) ==
    IF Len(iss_data) = 0 THEN [kind |-> "str"]
    ELSE SearchLoop(iss_data, IF current_time = 0 THEN clock ELSE current_time,
                    0, Len(iss_data) - 1, (0 + Len(iss_data) - 1) \div 2)

\* ------------------------------------------------------------------ queries

\* A returned dict or record has the key.
HasKey(obj, key) == key \in DOMAIN obj

UnitTokens == {"SI", "USCS"}

\* get_state_vectors(epoch): the route /epochs/<epoch>
get_state_vectors(d, epoch, clock) ==
    IF Len(d.data) = 0
    THEN RetTuple(get_error_payload("no data can be found", 404), 404)
    ELSE IF ~CanParseEpoch(epoch) THEN RetList(<<>>)
    ELSE LET epoch_seconds == EpochSeconds(epoch)
             closest == get_closest_epoch(d.data, epoch_seconds, clock)
         IN  IF closest.kind = "raise" THEN RetList(<<>>)
             ELSE IF IsClose(EpochSeconds(closest.ISS["epoch"]), epoch_seconds)
                  THEN RetList(<<closest.ISS>>)
                  ELSE RetList(<<>>)

\* get_speed(epoch): the route /epochs/<epoch>/speed
get_speed(d, epoch, clock) ==
    LET ISS == get_state_vectors(d, epoch, clock)
    IN  IF PyLen(ISS) = 0
        THEN RetTuple(get_error_payload("Request made for an epoch that does not exists", 404), 404)
        ELSE LET first == PyFirst(ISS)
             IN  IF \E key \in {"X_Dot", "Y_Dot", "Z_Dot"} : ~HasKey(first, key)
                 THEN RetRaise("KeyError")
                 ELSE IF \E key \in {"X_Dot", "Y_Dot", "Z_Dot"} : ~CanFloat(first[key])
                 THEN RetTuple(get_error_payload("An error occured converting speed to float", 404), 404)
                 ELSE IF d.units \notin UnitTokens THEN RetRaise("KeyError")
                 ELSE RetDict([value |-> <<ToFloat(first["X_Dot"]), ToFloat(first["Y_Dot"]),
                                          ToFloat(first["Z_Dot"])>>,
                               units |-> IF d.units = "SI" THEN "km/s" ELSE "mi/s"])

\* What Nominatim's reverse() does: a place, no place (above the sea), or a
\* timeout, raised as requests' ReadTimeout or as the geocoder's own timeout error.
GeoOutcomes == {"place", "none", "ReadTimeout", "GeocoderTimedOut"}

GeoTimeouts == {"ReadTimeout", "GeocoderTimedOut"}

GeopyUnavailable == "Geopy is currently unavailable"

AboveOcean == "The ISS is currently above an ocean; Unable to identify geolocation."

\* The try / except ReadTimeout / finally of get_location, given what came before it.
\* except ReadTimeout binds the sentinel string; finally then reads .raw of whatever
\* geolocation is bound to (a string has none: AttributeError), or finds it unbound
\* when the exception was of another class (UnboundLocalError).
Geolocate(geo, position, altitude) ==
    IF geo = "ReadTimeout" THEN RetRaise("AttributeError")
    ELSE IF geo = "GeocoderTimedOut" THEN RetRaise("UnboundLocalError")
    ELSE RetDict([latitude |-> position, longitude |-> position, altitude |-> altitude,
                  geolocation |-> IF geo = "none" THEN AboveOcean ELSE "address"])

\* get_location(epoch): the route /epochs/<epoch>/location.  Latitude and longitude
\* are kept as the position they are computed from.
get_location(d, epoch, clock, geo) ==
    LET ISS == get_state_vectors(d, epoch, clock)
    IN  IF PyLen(ISS) = 0
        THEN RetTuple(get_error_payload("no data can be found", 404), 404)
        ELSE LET first == PyFirst(ISS)
             IN  IF d.units \notin UnitTokens THEN RetRaise("KeyError")
                 ELSE IF ~CanParseEpoch(epoch) THEN RetRaise("ValueError")
                 ELSE IF \E key \in {"X", "Y", "Z"} : ~HasKey(first, key)
                 THEN RetRaise("KeyError")
                 ELSE Geolocate(geo, <<first["X"], first["Y"], first["Z"]>>,
                                [value |-> <<first["X"], first["Y"], first["Z"]>>,
                                 units |-> IF d.units = "SI" THEN "km" ELSE "mi"])

\* get_now(): the route /now
get_now(d, clock, geo) ==
    IF Len(d.data) = 0
    THEN RetTuple(get_error_payload("no data can be found", 404), 404)
    ELSE LET closest == get_closest_epoch(d.data, 0, clock)
         IN  IF closest.kind = "raise" THEN closest
             ELSE LET location == get_location(d, closest.ISS["epoch"], clock, geo)
                      speed == get_speed(d, closest.ISS["epoch"], clock)
                  IN  IF location.kind = "raise" THEN location
                      ELSE IF speed.kind = "raise" THEN speed
                      ELSE RetDict([closest_epoch |-> closest.ISS["epoch"],
                                    delay |-> [value |-> closest.delay, units |-> "seconds"],
                                    location |-> location,
                                    speed |-> speed])

\* ------------------------------------------------------------------ mutators

\* A convert route that sets the units field without converting the records.
convert_iss_data_UnitsOnly(d, desired_units) ==
    IF desired_units \in UnitTokens /\ desired_units # d.units
    THEN [data |-> [d EXCEPT !.units = desired_units],
          ret |-> RetDict(get_success_payload("Data has been converted"))]
    ELSE [data |-> d, ret |-> RetDict(get_success_payload("Data is already in these units"))]

\* convert_iss_data(): the route /convert?units=<desired_units>
convert_iss_data(d, desired_units) ==
    IF desired_units = d.units
    THEN [data |-> d, ret |-> RetDict(get_success_payload("Data is already in these units"))]
    ELSE IF desired_units \in UnitTokens
    THEN LET factor == IF desired_units = "SI" THEN Reciprocal(KM_TO_M) ELSE KM_TO_M
             r == convert_data(d.data, MotionMap(factor))
         IN  IF ~r.ok
             THEN [data |-> [d EXCEPT !.data = r.data], ret |-> RetRaise(r.exc)]
             ELSE [data |-> [data |-> r.data, units |-> desired_units],
                   ret |-> RetDict(get_success_payload("Data has been converted"))]
    ELSE IF desired_units = ""
    THEN [data |-> d,
          ret |-> RetTuple(get_error_payload("Invalid query parameter", 404), 404)]
    ELSE [data |-> d,
          ret |-> RetTuple(get_error_payload("Only 'SI' and 'USCS' units are supported!", 404), 404)]

\* delete_data(): the route /delete-data
delete_data(d) ==
    [data |-> [data |-> <<>>, units |-> ""],
     ret |-> RetDict(get_success_payload("data deleted"))]

\* A reload that replaces the records and leaves the units field as it found it.
post_data_KeepsUnits(d, fetched) ==
    LET loaded == load_data(fetched)
    IN  IF loaded.ok
        THEN [data |-> [data |-> loaded.data, units |-> d.units], load |-> "none",
              ret |-> RetDict(get_success_payload("data restored"))]
        ELSE [data |-> d, load |-> loaded.exc,
              ret |-> RetDict(get_error_payload("Unable to reload data. Please try again later", 404))]

\* A reload that empties the dataset before it loads the new one.
post_data_ClearsFirst(d, fetched) ==
    LET loaded == load_data(fetched)
    IN  IF loaded.ok
        THEN [data |-> [data |-> loaded.data, units |-> "SI"], load |-> "none",
              ret |-> RetDict(get_success_payload("data restored"))]
        ELSE [data |-> [data |-> <<>>, units |-> "SI"], load |-> loaded.exc,
              ret |-> RetDict(get_error_payload("Unable to reload data. Please try again later", 404))]

\* post_data(): the route /post-data.  load_data() runs before the global is bound.
post_data(d, fetched) ==
    LET loaded == load_data(fetched)
    IN  IF loaded.ok
        THEN [data |-> [data |-> loaded.data, units |-> "SI"], load |-> "none",
              ret |-> RetDict(get_success_payload("data restored"))]
        ELSE [data |-> d, load |-> loaded.exc,
              ret |-> RetDict(get_error_payload("Unable to reload data. Please try again later", 404))]

\* ------------------------------------------------------------------ inputs

\* The motion values of row i of a feed: six numeric strings.
RowValues(i) == [j \in 1 .. 6 |-> Str(10 * i + j)]

Row(t, i) == Line("row", <<Epoch(t)>> \o RowValues(i))

\* Non-decreasing sequences of epoch offsets, 1 to MaxRecords long.
SortedOffsets ==
    UNION {{es \in [1 .. n -> EpochOffsets] : \A i \in 1 .. n - 1 : es[i] <= es[i + 1]} :
           n \in 1 .. MaxRecords}

\* A well-formed feed: header, start marker, one row per epoch, a last empty line.
GoodFeed(es) ==
    [kind |-> "text",
     lines |-> <<HeaderLine, MarkerLine>> \o [i \in 1 .. Len(es) |-> Row(T0 + es[i], i)]
               \o <<BlankLine>>]

GoodFeeds == {GoodFeed(es) : es \in SortedOffsets}

\* Feeds load_data() fails on: the fetch fails, a row is cut short, a value is no number.
BadFeeds ==
    {[kind |-> "error", lines |-> <<>>],
     [kind |-> "text",
      lines |-> <<HeaderLine, MarkerLine, Row(T0, 1), Line("row", <<Epoch(T0 + 4), Str(1)>>)>>],
     [kind |-> "text",
      lines |-> <<HeaderLine, MarkerLine, Row(T0, 1),
                  Line("row", <<Epoch(T0 + 4)>> \o [RowValues(2) EXCEPT ![3] = Text(9)])>>]}

Feeds == GoodFeeds \cup BadFeeds

\* The instants callers ask about.
Targets == {T0 + o : o \in TargetOffsets}

\* The <epoch> of a URL: a well-formed epoch string, or one strptime() rejects.
EpochArgs == {Epoch(t) : t \in Targets} \cup {Text(0)}

\* The units query parameter: SI, USCS, absent, or anything else.
UnitArgs == {"SI", "USCS", "", "metric"}

NoEpoch == Text(0)

NoData == [data |-> <<>>, units |-> ""]

\* The last request and what it returned; pre is the dataset a convert, reload or
\* clear request found (NoData for the queries); load is the exception load_data() raised
\* in a reload ("none" when it raised nothing).
Request(op, epoch, units, time, clock, geo, load, pre, ret) ==
    [op |-> op, epoch |-> epoch, units |-> units, time |-> time, clock |-> clock,
     geo |-> geo, load |-> load, pre |-> pre, ret |-> ret]

\* No helper is being called on its own, and no request runs beside another.
NoRun == [kind |-> "none"]

\* The process has started and has answered no request yet.
Started ==
    Request("start", NoEpoch, "", 0, 0, "none", "none", NoData,
            RetDict(get_success_payload("started")))

NoCall == [called |-> FALSE, items |-> <<>>, convert_map |-> <<>>, calls |-> 0,
           result |-> [ok |-> TRUE, data |-> <<>>, exc |-> "none"]]

\* ------------------------------------------------------------------ the service

\* data = {"data": load_data(), "units": "SI"} at import: the process starts
\* only when the load succeeds.
Init ==
    /\ \E feed \in GoodFeeds : data = [data |-> load_data(feed).data, units |-> "SI"]
    /\ resp = Request("start", NoEpoch, "", 0, 0, "none", "none", NoData,
                      RetDict(get_success_payload("started")))
    /\ cd = NoCall
    /\ run = NoRun

PostData ==
    \E feed \in Feeds :
        LET r == post_data(data, feed)
        IN  /\ data' = r.data
            /\ resp' = Request("post_data", NoEpoch, "", 0, 0, "none", r.load, data, r.ret)
            /\ UNCHANGED <<cd, run>>

DeleteData ==
    LET r == delete_data(data)
    IN  /\ data' = r.data
        /\ resp' = Request("delete_data", NoEpoch, "", 0, 0, "none", "none", data, r.ret)
        /\ UNCHANGED <<cd, run>>

ConvertIssData ==
    \E desired_units \in UnitArgs :
        LET r == convert_iss_data(data, desired_units)
        IN  /\ data' = r.data
            /\ resp' = Request("convert", NoEpoch, desired_units, 0, 0, "none", "none", data, r.ret)
            /\ UNCHANGED <<cd, run>>

GetClosestEpoch ==
    \E current_time \in Targets \cup {0}, clock \in Targets :
        /\ current_time # 0 => clock = T0
        /\ resp' = Request("get_closest_epoch", NoEpoch, "", current_time, clock, "none", "none", NoData,
                           get_closest_epoch(data.data, current_time, clock))
        /\ UNCHANGED <<data, cd, run>>

GetStateVectors ==
    \E epoch \in EpochArgs :
        /\ resp' = Request("get_state_vectors", epoch, "", 0, T0, "none", "none", NoData,
                           get_state_vectors(data, epoch, T0))
        /\ UNCHANGED <<data, cd, run>>

GetSpeed ==
    \E epoch \in EpochArgs :
        /\ resp' = Request("get_speed", epoch, "", 0, T0, "none", "none", NoData,
                           get_speed(data, epoch, T0))
        /\ UNCHANGED <<data, cd, run>>

GetLocation ==
    \E epoch \in EpochArgs, geo \in GeoOutcomes :
        /\ resp' = Request("get_location", epoch, "", 0, T0, geo, "none", NoData,
                           get_location(data, epoch, T0, geo))
        /\ UNCHANGED <<data, cd, run>>

GetNow ==
    \E clock \in Targets, geo \in GeoOutcomes :
        /\ resp' = Request("get_now", NoEpoch, "", 0, clock, geo, "none", NoData,
                           get_now(data, clock, geo))
        /\ UNCHANGED <<data, cd, run>>

Next ==
    \/ PostData
    \/ DeleteData
    \/ ConvertIssData
    \/ GetClosestEpoch
    \/ GetStateVectors
    \/ GetSpeed
    \/ GetLocation
    \/ GetNow

Spec == Init /\ [][Next]_vars

\* ------------------------------------------------------------------ convert_data called directly

\* Records a caller hands to convert_data: numeric strings (as the test does),
\* floats beside an epoch, a record that lacks X_Dot, a record whose X_Dot is no number.
ItemChoices ==
    {[X |-> Str(3), X_Dot |-> Str(5)],
     [epoch |-> Epoch(T0), X |-> Float(7, 0), X_Dot |-> Float(2, 1)],
     [X |-> Str(4)],
     [X |-> Str(6), X_Dot |-> Text(1)]}

Collections == UNION {[1 .. n -> ItemChoices] : n \in 0 .. MaxItems}

Factors == {Float(2, 0), KM_TO_M, Reciprocal(KM_TO_M)}

KeyLists == {<<"X">>, <<"X_Dot">>, <<"X", "X_Dot">>}

\* Conversion specifications: one factor, or two different factors, each with its fields.
ConvertMaps ==
    {<<[factor |-> f, keys |-> ks]>> : f \in Factors, ks \in KeyLists}
    \cup {m \in {<<[factor |-> f, keys |-> ks], [factor |-> g, keys |-> ls]>> :
                    f \in Factors, g \in Factors, ks \in KeyLists, ls \in KeyLists} :
            m[1].factor # m[2].factor}

\* A caller is about to hand a collection and a conversion specification over.
InitConvert ==
    /\ data = [data |-> load_data(GoodFeed(<<0, 4>>)).data, units |-> "SI"]
    /\ resp = Request("start", NoEpoch, "", 0, 0, "none", "none", NoData,
                      RetDict(get_success_payload("started")))
    /\ \E items \in Collections, convert_map \in ConvertMaps :
           cd = [NoCall EXCEPT !.items = items, !.convert_map = convert_map]
    /\ run = NoRun

\* convert_data(items, convert_map)
CallConvertData ==
    /\ ~cd.called
    /\ cd' = [cd EXCEPT !.called = TRUE, !.calls = 1,
                        !.result = convert_data(cd.items, cd.convert_map)]
    /\ UNCHANGED <<data, resp, run>>

\* The same call once more, on the collection the first call returned.
CallConvertDataAgain ==
    /\ cd.called
    /\ cd.calls = 1
    /\ cd.result.ok
    /\ cd' = [cd EXCEPT !.calls = 2,
                        !.result = convert_data(cd.result.data, cd.convert_map)]
    /\ UNCHANGED <<data, resp, run>>

NextConvert ==
    \/ CallConvertData
    \/ CallConvertDataAgain

SpecConvert == InitConvert /\ [][NextConvert]_vars

\* ------------------------------------------------------------------ requests side by side

\* The development server answers each request on a thread of its own, and no
\* handler takes a lock: two mutating requests and any number of reads interleave
\* statement by statement. run.heap holds the list objects made so far and run.cur
\* the one the global dict's "data" key refers to; data is the dict as a read finds it.
Writers == {"w1", "w2"}

\* The mutating requests: PUT /convert?units=SI|USCS, DELETE /delete-data, POST /post-data.
WriterOps ==
    {[op |-> "convert", units |-> "SI"], [op |-> "convert", units |-> "USCS"],
     [op |-> "delete_data", units |-> ""], [op |-> "post_data", units |-> ""]}

\* A request about to run its handler's first statement.
Thread(req) == [op |-> req.op, units |-> req.units, pc |-> "start", obj |-> 0, i |-> 0]

InitConc ==
    /\ \E feed \in GoodFeeds, reqs \in [Writers -> WriterOps] :
          /\ data = [data |-> load_data(feed).data, units |-> "SI"]
          /\ run = [kind |-> "conc", heap |-> <<load_data(feed).data>>, cur |-> 1,
                    th |-> [w \in Writers |-> Thread(reqs[w])],
                    read |-> FALSE, seen |-> NoData]
    /\ resp = Started
    /\ cd = NoCall

\* One statement of a handler has run: the heap, the list the dict refers to, the
\* units and the threads after it.
Step(heap, cur, units, th) ==
    /\ run' = [run EXCEPT !.heap = heap, !.cur = cur, !.th = th]
    /\ data' = [data |-> heap[cur], units |-> units]
    /\ UNCHANGED <<resp, cd>>

\* iss_data = data["data"]; if desired_units == data["units"]: return ...
ConvertBegin(w) ==
    LET t == run.th[w]
    IN  /\ t.op = "convert"
        /\ t.pc = "start"
        /\ Step(run.heap, run.cur, data.units,
                [run.th EXCEPT ![w] = IF t.units = data.units
                                      THEN [t EXCEPT !.pc = "done"]
                                      ELSE [t EXCEPT !.pc = "loop", !.obj = run.cur, !.i = 1]])

\* for item in data_to_convert: one record of the list the thread holds is
\* rewritten in place, or the iterator finds the list exhausted.
ConvertRecord(w) ==
    LET t == run.th[w]
        items == run.heap[t.obj]
        factor == IF t.units = "SI" THEN Reciprocal(KM_TO_M) ELSE KM_TO_M
    IN  /\ t.op = "convert"
        /\ t.pc = "loop"
        /\ IF t.i > Len(items)
           THEN Step(run.heap, run.cur, data.units, [run.th EXCEPT ![w].pc = "store"])
           ELSE LET r == ConvertItem(items[t.i], MotionMap(factor), 1)
                IN  Step([run.heap EXCEPT ![t.obj][t.i] = r.item], run.cur, data.units,
                         [run.th EXCEPT ![w] = IF r.ok THEN [t EXCEPT !.i = t.i + 1]
                                                        ELSE [t EXCEPT !.pc = "done"]])

\* data["data"] = convert_data(iss_data, convert_map)
ConvertStore(w) ==
    LET t == run.th[w]
    IN  /\ t.op = "convert"
        /\ t.pc = "store"
        /\ Step(run.heap, t.obj, data.units, [run.th EXCEPT ![w].pc = "units"])

\* data["units"] = desired_units
ConvertUnits(w) ==
    LET t == run.th[w]
    IN  /\ t.op = "convert"
        /\ t.pc = "units"
        /\ Step(run.heap, run.cur, t.units, [run.th EXCEPT ![w].pc = "done"])

\* data["units"] = ""
DeleteUnits(w) ==
    LET t == run.th[w]
    IN  /\ t.op = "delete_data"
        /\ t.pc = "start"
        /\ Step(run.heap, run.cur, "", [run.th EXCEPT ![w].pc = "clear"])

\* data["data"].clear()
DeleteClear(w) ==
    LET t == run.th[w]
    IN  /\ t.op = "delete_data"
        /\ t.pc = "clear"
        /\ Step([run.heap EXCEPT ![run.cur] = <<>>], run.cur, data.units,
                [run.th EXCEPT ![w].pc = "done"])

\* data = {"data": load_data(), "units": "SI"}: the global is bound to a new dict
\* holding a new list; a thread that holds the old list keeps it.
Reload(w) ==
    LET t == run.th[w]
    IN  /\ t.op = "post_data"
        /\ t.pc = "start"
        /\ \E feed \in Feeds :
              LET r == post_data(data, feed)
              IN  IF r.load = "none"
                  THEN Step(Append(run.heap, r.data.data), Len(run.heap) + 1, r.data.units,
                            [run.th EXCEPT ![w].pc = "done"])
                  ELSE Step(run.heap, run.cur, data.units, [run.th EXCEPT ![w].pc = "done"])

\* A query reads data["data"] and data["units"].
Read ==
    /\ run' = [run EXCEPT !.read = TRUE, !.seen = data]
    /\ UNCHANGED <<data, resp, cd>>

NextConc ==
    \/ \E w \in Writers : ConvertBegin(w)
    \/ \E w \in Writers : ConvertRecord(w)
    \/ \E w \in Writers : ConvertStore(w)
    \/ \E w \in Writers : ConvertUnits(w)
    \/ \E w \in Writers : DeleteUnits(w)
    \/ \E w \in Writers : DeleteClear(w)
    \/ \E w \in Writers : Reload(w)
    \/ Read

SpecConc == InitConc /\ [][NextConc]_vars

\* ------------------------------------------------------------------ the search, pass by pass

\* The locals of a get_closest_epoch call; reads lists the indices iss_data[...]
\* was read at, in order.
NoSearch == [pc |-> "idle", left |-> 0, right |-> 0, mid |-> 0, reads |-> <<>>,
             ret |-> [kind |-> "none"]]

\* iss_data = data["data"]; if len(iss_data) == 0: return ""; left, right = ...
SearchBegin(iss_data) ==
    IF Len(iss_data) = 0
    THEN [NoSearch EXCEPT !.pc = "returned", !.ret = [kind |-> "str"]]
    ELSE [NoSearch EXCEPT !.pc = "loop", !.right = Len(iss_data) - 1,
                          !.mid = (0 + Len(iss_data) - 1) \div 2]

\* A pass that returns the absolute distance in place of epoch_seconds - current_time.
SearchStep_AbsDelay(iss_data, current_time, s) ==
    IF ~(0 <= s.left /\ s.right < Len(iss_data))
    THEN [s EXCEPT !.pc = "returned", !.ret = [kind |-> "none"]]
    ELSE IF s.mid >= Len(iss_data) \/ s.mid < 0 - Len(iss_data)
    THEN [s EXCEPT !.pc = "returned", !.reads = Append(s.reads, s.mid),
                   !.ret = RetRaise("IndexError")]
    ELSE LET read == [s EXCEPT !.reads = Append(s.reads, s.mid)]
             epoch == PyIndex(iss_data, s.mid)["epoch"]
             epoch_seconds == EpochSeconds(epoch)
             found == [kind |-> "pair", ISS |-> PyIndex(iss_data, s.mid),
                       delay |-> Abs(epoch_seconds - current_time)]
         IN  IF ~CanParseEpoch(epoch)
             THEN [read EXCEPT !.pc = "returned", !.ret = RetRaise("ValueError")]
             ELSE IF IsClose(epoch_seconds, current_time) \/ ~(s.left < s.right)
             THEN [read EXCEPT !.pc = "returned", !.ret = found]
             ELSE IF epoch_seconds < current_time
             THEN [read EXCEPT !.left = s.mid + 1, !.mid = (s.mid + 1 + s.right) \div 2]
             ELSE [read EXCEPT !.right = s.mid - 1, !.mid = (s.left + s.mid - 1) \div 2]

\* One pass of while 0 <= left and right < len(iss_data), from the test of the
\* condition to mid = (left + right) // 2; falling out of the loop returns None.
SearchStep(iss_data, current_time, s) ==
    IF ~(0 <= s.left /\ s.right < Len(iss_data))
    THEN [s EXCEPT !.pc = "returned", !.ret = [kind |-> "none"]]
    ELSE IF s.mid >= Len(iss_data) \/ s.mid < 0 - Len(iss_data)
    THEN [s EXCEPT !.pc = "returned", !.reads = Append(s.reads, s.mid),
                   !.ret = RetRaise("IndexError")]
    ELSE LET read == [s EXCEPT !.reads = Append(s.reads, s.mid)]
             epoch == PyIndex(iss_data, s.mid)["epoch"]
             epoch_seconds == EpochSeconds(epoch)
             found == [kind |-> "pair", ISS |-> PyIndex(iss_data, s.mid),
                       delay |-> epoch_seconds - current_time]
         IN  IF ~CanParseEpoch(epoch)
             THEN [read EXCEPT !.pc = "returned", !.ret = RetRaise("ValueError")]
             ELSE IF IsClose(epoch_seconds, current_time) \/ ~(s.left < s.right)
             THEN [read EXCEPT !.pc = "returned", !.ret = found]
             ELSE IF epoch_seconds < current_time
             THEN [read EXCEPT !.left = s.mid + 1, !.mid = (s.mid + 1 + s.right) \div 2]
             ELSE [read EXCEPT !.right = s.mid - 1, !.mid = (s.left + s.mid - 1) \div 2]

\* Record sequences a feed can hold: any order of epochs, none to MaxRecords long.
AnyOffsets == UNION {[1 .. n -> EpochOffsets] : n \in 0 .. MaxRecords}

\* A dataset is loaded and two calls get_closest_epoch(t1), get_closest_epoch(t2),
\* t1 <= t2, are to be made with no request between them.
InitSearch ==
    /\ \E es \in AnyOffsets :
          data = [data |-> load_data(GoodFeed(es)).data, units |-> "SI"]
    /\ \E t1 \in Targets, t2 \in Targets :
          /\ t1 <= t2
          /\ run = [kind |-> "search", targets |-> <<t1, t2>>, call |-> 1,
                    s |-> NoSearch, done |-> <<>>]
    /\ resp = Started
    /\ cd = NoCall

\* The next call starts.
CallClosestEpoch ==
    /\ run.kind = "search"
    /\ run.s.pc = "idle"
    /\ run.call <= Len(run.targets)
    /\ run' = [run EXCEPT !.s = SearchBegin(data.data)]
    /\ UNCHANGED <<data, resp, cd>>

\* The running call makes one pass of its loop.
SearchPass ==
    /\ run.kind = "search"
    /\ run.s.pc = "loop"
    /\ run' = [run EXCEPT !.s = SearchStep(data.data, run.targets[run.call], run.s)]
    /\ UNCHANGED <<data, resp, cd>>

\* The running call returns to its caller.
SearchReturn ==
    /\ run.kind = "search"
    /\ run.s.pc = "returned"
    /\ run' = [run EXCEPT !.done = Append(run.done, [current_time |-> run.targets[run.call],
                                                     reads |-> run.s.reads, ret |-> run.s.ret]),
                          !.call = run.call + 1, !.s = NoSearch]
    /\ UNCHANGED <<data, resp, cd>>

NextSearch ==
    \/ CallClosestEpoch
    \/ SearchPass
    \/ SearchReturn

SpecSearch == InitSearch /\ [][NextSearch]_vars

\* ------------------------------------------------------------------ the parser on its own

\* A line of n values split off by " ": an epoch, then numeric strings.
WideRow(n, i) == Line("row", [j \in 1 .. n |-> IF j = 1 THEN Epoch(T0 + i) ELSE Str(10 * i + j - 1)])

\* The number of values on a line: one fewer than the field names, as many, one more.
Widths == {Len(Keys) - 1, Len(Keys), Len(Keys) + 1}

\* Texts handed to txt_to_dict: a header, the start marker or none, up to
\* MaxRecords lines of values, a last empty line.
ParseTexts ==
    {<<HeaderLine>> \o marker \o [i \in 1 .. Len(ws) |-> WideRow(ws[i], i)] \o <<BlankLine>> :
        marker \in {<<>>, <<MarkerLine>>},
        ws \in UNION {[1 .. n -> Widths] : n \in 0 .. MaxRecords}}

InitParse ==
    /\ data = NoData
    /\ resp = Started
    /\ cd = NoCall
    /\ \E lines \in ParseTexts :
          run = [kind |-> "parse", lines |-> lines, keys |-> Keys, called |-> FALSE,
                 result |-> [ok |-> TRUE, data |-> <<>>, exc |-> "none"]]

\* txt_to_dict(txt, keys, "\r\n", " ", "COMMENT End sequence of events")
CallTxtToDict ==
    /\ run.kind = "parse"
    /\ ~run.called
    /\ run' = [run EXCEPT !.called = TRUE, !.result = txt_to_dict(run.lines, run.keys)]
    /\ UNCHANGED <<data, resp, cd>>

NextParse == CallTxtToDict

SpecParse == InitParse /\ [][NextParse]_vars

\* ------------------------------------------------------------------ the list routes

\* 2**31 - 1, the limit when the query gives none.
DefaultLimit == 2147483647

\* A query parameter: absent, an integer literal, or text int() rejects.
Absent == [k |-> "absent", n |-> 0]

IntArg(n) == [k |-> "int", n |-> n]

ListArgs == {Absent, [k |-> "text", n |-> 0]} \cup {IntArg(n) : n \in -1 .. MaxRecords + 1}

\* int(request.args.get(name, default)); ValueError on text and, by the check that
\* follows it, on a negative value.
ParseArg(arg, default) ==
    IF arg.k = "absent" THEN [ok |-> TRUE, n |-> default]
    ELSE IF arg.k = "text" \/ arg.n < 0 THEN [ok |-> FALSE, n |-> 0]
    ELSE [ok |-> TRUE, n |-> arg.n]

\* A slice that takes one element more than offset + limit allows.
PySlice_OneMore(seq, offset, limit) ==
    LET stop == IF limit >= Len(seq) - offset THEN Len(seq) ELSE offset + limit + 1
    IN  IF offset >= stop THEN <<>> ELSE SubSeq(seq, offset + 1, stop)

\* seq[offset:offset+limit] for offset, limit >= 0: both ends are clipped to len(seq).
PySlice(seq, offset, limit) ==
    LET stop == IF limit >= Len(seq) - offset THEN Len(seq) ELSE offset + limit
    IN  IF offset >= stop THEN <<>> ELSE SubSeq(seq, offset + 1, stop)

\* GET /?limit=..&offset=..
get_data(d, limit_arg, offset_arg) ==
    LET limit == ParseArg(limit_arg, DefaultLimit)
        offset == ParseArg(offset_arg, 0)
    IN  IF ~limit.ok \/ ~offset.ok
        THEN RetTuple("ERROR: limit and offset must be a positive intgers", 404)
        ELSE RetList(PySlice(d.data, offset.n, limit.n))

\* GET /epochs?limit=..&offset=..
get_epochs(d, limit_arg, offset_arg) ==
    LET limit == ParseArg(limit_arg, DefaultLimit)
        offset == ParseArg(offset_arg, 0)
    IN  IF ~limit.ok \/ ~offset.ok
        THEN RetTuple(get_error_payload("ERROR: limit and offset must be a positive intgers", 404), 404)
        ELSE RetList(PySlice([i \in 1 .. Len(d.data) |-> d.data[i]["epoch"]], offset.n, limit.n))

\* The dataset is loaded, or has been cleared; no list request has been made.
InitList ==
    /\ \/ \E feed \in GoodFeeds : data = [data |-> load_data(feed).data, units |-> "SI"]
       \/ data = NoData
    /\ resp = Started
    /\ cd = NoCall
    /\ run = [kind |-> "list", op |-> "none", limit |-> Absent, offset |-> Absent,
              ret |-> RetList(<<>>)]

GetData ==
    /\ run.kind = "list"
    /\ \E limit \in ListArgs, offset \in ListArgs :
          run' = [run EXCEPT !.op = "get_data", !.limit = limit, !.offset = offset,
                             !.ret = get_data(data, limit, offset)]
    /\ UNCHANGED <<data, resp, cd>>

GetEpochs ==
    /\ run.kind = "list"
    /\ \E limit \in ListArgs, offset \in ListArgs :
          run' = [run EXCEPT !.op = "get_epochs", !.limit = limit, !.offset = offset,
                             !.ret = get_epochs(data, limit, offset)]
    /\ UNCHANGED <<data, resp, cd>>

NextList ==
    \/ GetData
    \/ GetEpochs

SpecList == InitList /\ [][NextList]_vars

\* ------------------------------------------------------------------ properties

QueryOps == {"get_state_vectors", "get_speed", "get_location", "get_now"}

\* The instant record i of the dataset stands for.
RecordSeconds(i) == EpochSeconds(data.data[i]["epoch"])

\* The target a get_closest_epoch request resolved against.
SearchTarget == IF resp.time = 0 THEN resp.clock ELSE resp.time

\* C1: over a non-empty dataset sorted by epoch, for every target instant (before
\* the first epoch, after the last, between two), get_closest_epoch returns a record
\* whose distance |epoch - target| is the least over all records of the dataset.
C1_ClosestIsMinimal ==
    (resp.op = "get_closest_epoch" /\ Len(data.data) > 0) =>
        /\ resp.ret.kind = "pair"
        /\ \A i \in 1 .. Len(data.data) :
              Abs(EpochSeconds(resp.ret.ISS["epoch"]) - SearchTarget)
                  <= Abs(RecordSeconds(i) - SearchTarget)

\* C2: once the dataset is cleared and not reloaded, every epoch-based query
\* (get_state_vectors, get_speed, get_location, get_now), whatever its epoch,
\* returns the 404 "no data" report and raises nothing.
C2_ClearedQueriesReportNoData ==
    (resp.op \in QueryOps /\ Len(data.data) = 0) =>
        /\ resp.ret.kind = "tuple"
        /\ resp.ret.code = 404

\* Some record of the dataset carries the requested instant.
EpochPresent(epoch) ==
    /\ CanParseEpoch(epoch)
    /\ \E i \in 1 .. Len(data.data) : RecordSeconds(i) = EpochSeconds(epoch)

\* C3: over a non-empty sorted dataset get_state_vectors returns a list of exactly
\* one record, carrying the requested instant, when some record has that instant,
\* and the empty list (no exception) when none has: also for an instant one second
\* from a stored epoch and for a malformed epoch string.
C3_ExactEpochResolution ==
    (resp.op = "get_state_vectors" /\ Len(data.data) > 0) =>
        /\ resp.ret.kind = "list"
        /\ EpochPresent(resp.epoch) =>
              /\ Len(resp.ret.items) = 1
              /\ EpochSeconds(resp.ret.items[1]["epoch"]) = EpochSeconds(resp.epoch)
        /\ ~EpochPresent(resp.epoch) => resp.ret.items = <<>>

\* C4: a reload whose fetch or parse fails leaves the dataset as it was (records,
\* their count, the first epoch, the units) and returns a failure report.
C4_FailedReloadKeepsDataset ==
    [][(resp'.op = "post_data" /\ resp'.load # "none") =>
          /\ data' = data
          /\ resp'.ret.kind = "dict"
          /\ HasKey(resp'.ret.body, "ERROR")]_vars

\* A reload failed on a row cut short while the dataset was loaded and in USCS units.
C4_Witness ==
    /\ resp.op = "post_data"
    /\ resp.load = "IndexError"
    /\ Len(data.data) > 0
    /\ data.units = "USCS"

\* The power of KM_TO_M the records of a dataset in these units carry.
UnitPower(units) == IF units = "USCS" THEN 1 ELSE 0

\* C5: in every state reload, clear and convert requests lead to, every record is
\* in the unit system the units field names: each of the six motion fields is the
\* loaded feed value, scaled by 1 under SI and by KM_TO_M exactly once under USCS;
\* and records never coexist with units outside {SI, USCS}.
C5_OneUnitSystem ==
    /\ Len(data.data) > 0 => data.units \in UnitTokens
    /\ \A i \in 1 .. Len(data.data) : \A j \in 1 .. 6 :
          data.data[i][MotionKeys[j]] = Float(RowValues(i)[j].m, UnitPower(data.units))

\* A full-length dataset found in SI units has been converted to USCS.
C5_Witness ==
    /\ resp.op = "convert"
    /\ resp.pre.units = "SI"
    /\ data.units = "USCS"
    /\ Len(data.data) = MaxRecords

\* C6: a convert request changes the records only for a token SI or USCS that
\* differs from the active units; the active unit system requested again reports
\* success and changes nothing; and in every state, also after a clear, a token
\* that is neither SI nor USCS is reported as a user error and changes nothing.
C6_ConvertTokens ==
    resp.op = "convert" =>
        /\ data.data # resp.pre.data =>
              (resp.units \in UnitTokens /\ resp.units # resp.pre.units)
        /\ (resp.units \in UnitTokens /\ resp.units = resp.pre.units) =>
              /\ data = resp.pre
              /\ resp.ret.kind = "dict"
              /\ HasKey(resp.ret.body, "success")
        /\ resp.units \notin UnitTokens =>
              /\ data = resp.pre
              /\ resp.ret.kind = "tuple"
              /\ HasKey(resp.ret.payload, "ERROR")

Named(convert_map, key) ==
    \E j \in 1 .. Len(convert_map) : \E n \in 1 .. Len(convert_map[j].keys) :
        convert_map[j].keys[n] = key

\* The product of the factors whose entries name the field.
RECURSIVE FactorOn(_, _, _)
FactorOn(convert_map, key, j) ==
    IF j > Len(convert_map) THEN Float(1, 0)
    ELSE IF \E n \in 1 .. Len(convert_map[j].keys) : convert_map[j].keys[n] = key
         THEN Mul(convert_map[j].factor, FactorOn(convert_map, key, j + 1))
         ELSE FactorOn(convert_map, key, j + 1)

\* What a field holds after `calls` calls that each multiply it by `factor`.
Scaled(value, factor, calls) ==
    IF calls = 1 THEN Mul(ToFloat(value), factor)
    ELSE Mul(Mul(ToFloat(value), factor), factor)

\* C8: a call of convert_data that raises nothing returns the collection it was
\* given, record for record, with every field the specification names multiplied
\* by its factor once, and every other field as it was; the same call made again
\* multiplies the named fields once more.
C8_ConvertDataMultiplies ==
    (cd.called /\ cd.result.ok) =>
        /\ Len(cd.result.data) = Len(cd.items)
        /\ \A i \in 1 .. Len(cd.items) :
              /\ DOMAIN cd.result.data[i] = DOMAIN cd.items[i]
              /\ \A key \in DOMAIN cd.items[i] :
                    cd.result.data[i][key] =
                        IF Named(cd.convert_map, key)
                        THEN Scaled(cd.items[i][key], FactorOn(cd.convert_map, key, 1), cd.calls)
                        ELSE cd.items[i][key]

\* Two calls have converted a full collection that holds a record with a field
\* the two-entry specification does not name.
C8_Witness ==
    /\ cd.calls = 2
    /\ cd.result.ok
    /\ Len(cd.items) = MaxItems
    /\ Len(cd.convert_map) = 2
    /\ \E i \in 1 .. Len(cd.items) : "epoch" \in DOMAIN cd.items[i]

\* C9: when convert_data fails part-way (a record lacks a named field, or holds
\* a value that is no number there) it aborts with an error and every record of
\* the collection, those before the offending one too, holds the values it had
\* before the call.
C9_FailedConversionKeepsValues ==
    (cd.called /\ ~cd.result.ok) =>
        /\ cd.result.exc \in {"KeyError", "ValueError"}
        /\ cd.result.data = cd.items

\* The requested epoch is the epoch of a record, and resolves to a record.
Resolvable(epoch) ==
    LET ISS == get_state_vectors(data, epoch, T0)
    IN  EpochPresent(epoch) /\ ISS.kind = "list" /\ Len(ISS.items) = 1

\* C10: a location query on a resolvable epoch whose reverse-geocoding lookup
\* times out still returns the whole location result, its geolocation being the
\* "unavailable" sentinel string; the timeout never leaves get_location as an
\* exception.
C10_TimeoutGivesSentinel ==
    (resp.op = "get_location" /\ resp.geo \in GeoTimeouts /\ Resolvable(resp.epoch)) =>
        /\ resp.ret.kind = "dict"
        /\ DOMAIN resp.ret.body = {"latitude", "longitude", "altitude", "geolocation"}
        /\ resp.ret.body.geolocation = GeopyUnavailable

\* The record row i of a feed stands for, its epoch at instant t, in SI units.
FreshRecord(t, i) ==
    [epoch |-> Epoch(t), X |-> Float(10 * i + 1, 0), Y |-> Float(10 * i + 2, 0),
     Z |-> Float(10 * i + 3, 0), X_Dot |-> Float(10 * i + 4, 0),
     Y_Dot |-> Float(10 * i + 5, 0), Z_Dot |-> Float(10 * i + 6, 0)]

\* C14: after any sequence of reload, clear and convert requests, a reload that
\* succeeds (from SI, USCS or a cleared dataset) leaves exactly the freshly parsed
\* records of the feed, with units SI, and a clear leaves no records and empty units.
C14_Lifecycle ==
    /\ (resp.op = "post_data" /\ resp.load = "none") =>
          /\ data.units = "SI"
          /\ \E es \in SortedOffsets :
                data.data = [i \in 1 .. Len(es) |-> FreshRecord(T0 + es[i], i)]
    /\ resp.op = "delete_data" => data = NoData

\* A reload has replaced a longer dataset that was in USCS units.
C14_Witness ==
    /\ resp.op = "post_data"
    /\ resp.load = "none"
    /\ resp.pre.units = "USCS"
    /\ Len(resp.pre.data) > Len(data.data)

\* C11: with convert, clear and reload requests running beside queries and beside
\* each other, every read sees records that are all in the unit system the units
\* value of the same read names (each motion field the feed value scaled by 1 under
\* SI, by KM_TO_M once under USCS), and sees no records together with empty units.
C11_ReadsSeeOneUnitSystem ==
    (run.kind = "conc" /\ run.read) =>
        /\ Len(run.seen.data) > 0 => run.seen.units \in UnitTokens
        /\ \A i \in 1 .. Len(run.seen.data) : \A j \in 1 .. 6 :
              \E v \in {10 * n + j : n \in 1 .. Len(run.seen.data) + 1} :
                  run.seen.data[i][MotionKeys[j]] = Float(v, UnitPower(run.seen.units))

\* The records are in ascending order of epoch.
SortedByEpoch(iss_data) ==
    \A i \in 1 .. Len(iss_data) - 1 :
        EpochSeconds(iss_data[i]["epoch"]) <= EpochSeconds(iss_data[i + 1]["epoch"])

\* Two calls on a non-empty sorted dataset have returned, the first for t1, the second for t2.
TwoCalls ==
    /\ run.kind = "search"
    /\ Len(run.done) = 2
    /\ Len(data.data) > 0
    /\ SortedByEpoch(data.data)

IndicesInRange(reads, iss_data) ==
    \A k \in 1 .. Len(reads) : reads[k] >= 0 /\ reads[k] <= Len(iss_data) - 1

\* C16: for every record sequence, sorted or not, and every target, each index the
\* loop of get_closest_epoch reads lies in 0 .. len(records) - 1 (the midpoint is
\* never negative nor past the end), a call on a non-empty sequence returns a record
\* of the sequence with that record's epoch minus the target, and a call on an
\* empty sequence returns the empty result and reads no index.
C16_SearchStaysInBounds ==
    run.kind = "search" =>
        /\ IndicesInRange(run.s.reads, data.data)
        /\ \A c \in 1 .. Len(run.done) :
              /\ IndicesInRange(run.done[c].reads, data.data)
              /\ IF Len(data.data) = 0
                 THEN run.done[c].ret.kind = "str" /\ run.done[c].reads = <<>>
                 ELSE /\ run.done[c].ret.kind = "pair"
                      /\ \E i \in 1 .. Len(data.data) :
                            /\ run.done[c].ret.ISS = data.data[i]
                            /\ run.done[c].ret.delay
                                  = EpochSeconds(data.data[i]["epoch"]) - run.done[c].current_time

\* Line i of the text comes after the start marker and is not empty.
ParsedLine(lines, i) ==
    /\ lines[i].kind # "blank"
    /\ \E m \in 1 .. i - 1 : lines[m].kind = "marker"

\* C13: when a line txt_to_dict parses has a number of split values different from
\* the number of field names, fewer or more, the call raises: it returns no
\* records, so the line is neither skipped nor truncated into a record.
C13_MismatchAborts ==
    (run.kind = "parse" /\ run.called) =>
        ((\E i \in 1 .. Len(run.lines) :
             ParsedLine(run.lines, i) /\ Len(run.lines[i].vals) # Len(run.keys))
         => ~run.result.ok)

\* The parameter is absent or a non-negative integer.
Accepted(arg) == arg.k = "absent" \/ (arg.k = "int" /\ arg.n >= 0)

\* What a list request lists, one entry per record: the record, or its epoch.
Listed(i) == IF run.op = "get_data" THEN data.data[i] ELSE data.data[i]["epoch"]

\* How many entries the window [offset, offset + limit) holds in a dataset of n records.
WindowSize(n, offset, limit_arg) ==
    IF offset >= n THEN 0
    ELSE IF limit_arg.k = "absent" \/ limit_arg.n >= n - offset THEN n - offset
    ELSE limit_arg.n

\* C15: for every dataset and all non-negative integers offset and limit, get_data
\* and get_epochs return exactly the records (their epochs) at indices
\* [offset, offset + limit) in dataset order, clipped to the length (empty when
\* offset is at or past the end); with no limit the whole tail from offset; and a
\* negative offset or limit is answered with the 404 user-input error.
C15_ListWindow ==
    (run.kind = "list" /\ run.op # "none") =>
        LET offset == IF run.offset.k = "absent" THEN 0 ELSE run.offset.n
            size == WindowSize(Len(data.data), offset, run.limit)
        IN  /\ (Accepted(run.limit) /\ Accepted(run.offset)) =>
                  /\ run.ret.kind = "list"
                  /\ run.ret.items = [k \in 1 .. size |-> Listed(offset + k)]
            /\ ((run.limit.k = "int" /\ run.limit.n < 0)
                \/ (run.offset.k = "int" /\ run.offset.n < 0)) =>
                  /\ run.ret.kind = "tuple"
                  /\ run.ret.code = 404

\* A list request with a positive offset whose window runs past the end of the
\* dataset has returned the clipped, non-empty tail.
C15_Witness ==
    /\ run.kind = "list"
    /\ run.op = "get_epochs"
    /\ run.offset.k = "int"
    /\ run.offset.n > 0
    /\ run.limit.k = "int"
    /\ run.offset.n + run.limit.n > Len(data.data)
    /\ run.ret.kind = "list"
    /\ Len(run.ret.items) > 0
    /\ Len(run.ret.items) < run.limit.n

====
